---- MODULE Spec2Model ----
(***************************************************************************)
(* Model of FlightTaskAutoFollowTarget (PX4 follow-me flight task):        *)
(* activate() and the per-cycle update().                                  *)
(*                                                                         *)
(* Numbers.  A C float is a record [fin, v]: a finite value carries its    *)
(* fixed-point integer v in units of 1/SCALE (0.1 m, 0.1 m/s, 0.1 s);       *)
(* a non-finite one is NaN (v = 0), +Inf (v = 1) or -Inf (v = -1), with    *)
(* the IEEE rules for arithmetic and comparison.  Angles are whole         *)
(* degrees.  The cycle duration and the two scalar filters that are only   *)
(* ever fed finite values (follow angle, feed-forward scale) are plain     *)
(* integers.                                                               *)
(***************************************************************************)
EXTENDS Integers, Sequences, FiniteSets, TLC

\* Fixed-point resolution: 1.0f is SCALE.
SCALE == 10

\* ---- program constants (FlightTaskAutoFollowTarget.hpp) -----------------
MINIMUM_SPEED_FOR_HEADING_CHANGE == 1
MINIMUM_DISTANCE_TO_TARGET_FOR_YAW_CONTROL == 10
MINIMUM_SAFETY_ALTITUDE == 10
ALT_ACCEPTANCE_THRESHOLD == 30
EMERGENCY_ASCENT_SPEED == 2
POSITION_FILTER_ALPHA == 15
FOLLOW_ANGLE_FILTER_ALPHA == 30
DIRECTION_FILTER_ALPHA == 30
VELOCITY_FF_FILTER_ALPHA == 10

FOLLOW_PERSPECTIVE_BEHIND_ANGLE_DEG == 180
FOLLOW_PERSPECTIVE_FRONT_ANGLE_DEG == 0
FOLLOW_PERSPECTIVE_FRONT_RIGHT_ANGLE_DEG == 45
FOLLOW_PERSPECTIVE_FRONT_LEFT_ANGLE_DEG == 315
FOLLOW_PERSPECTIVE_MID_RIGHT_ANGLE_DEG == 90
FOLLOW_PERSPECTIVE_MID_LEFT_ANGLE_DEG == 270
FOLLOW_PERSPECTIVE_BEHIND_RIGHT_ANGLE_DEG == 135
FOLLOW_PERSPECTIVE_BEHIND_LEFT_ANGLE_DEG == 225

FOLLOW_PERSPECTIVE_NONE == 0
FOLLOW_PERSPECTIVE_BEHIND == 1
FOLLOW_PERSPECTIVE_FRONT == 2
FOLLOW_PERSPECTIVE_FRONT_RIGHT == 3
FOLLOW_PERSPECTIVE_FRONT_LEFT == 4
FOLLOW_PERSPECTIVE_MID_RIGHT == 5
FOLLOW_PERSPECTIVE_MID_LEFT == 6
FOLLOW_PERSPECTIVE_BEHIND_RIGHT == 7
FOLLOW_PERSPECTIVE_BEHIND_LEFT == 8
FOLLOW_PERSPECTIVE_MIDDLE_FOLLOW == 9
FOLLOW_PERSPECTIVE_INVALID == 10

FOLLOW_ALTITUDE_MODE_CONSTANT == 0
FOLLOW_ALTITUDE_MODE_TRACK_TARGET == 1

\* ---- floats --------------------------------------------------------------
F(n) == [fin |-> TRUE, v |-> n]
NaN == [fin |-> FALSE, v |-> 0]
PInf == [fin |-> FALSE, v |-> 1]
NInf == [fin |-> FALSE, v |-> -1]

\* PX4_ISFINITE
IsFinite(a) == a.fin
IsNaN(a) == a = NaN

Abs(n) == IF n < 0 THEN -n ELSE n
Sgn(n) == IF n > 0 THEN 1 ELSE IF n < 0 THEN -1 ELSE 0

\* Integer division rounding toward zero (d # 0).
TDiv(n, d) == Sgn(n) * Sgn(d) * (Abs(n) \div Abs(d))

Neg(a) == [fin |-> a.fin, v |-> -a.v]

Add(a, b) ==
  IF a.fin /\ b.fin THEN F(a.v + b.v)
  ELSE IF IsNaN(a) \/ IsNaN(b) THEN NaN
  ELSE IF a.fin THEN b
  ELSE IF b.fin THEN a
  ELSE IF a = b THEN a ELSE NaN

Sub(a, b) == Add(a, Neg(b))

Mul(a, b) ==
  IF a.fin /\ b.fin THEN F(TDiv(a.v * b.v, SCALE))
  ELSE IF IsNaN(a) \/ IsNaN(b) THEN NaN
  ELSE IF Sgn(a.v) * Sgn(b.v) = 0 THEN NaN
  ELSE [fin |-> FALSE, v |-> Sgn(a.v) * Sgn(b.v)]

Div(a, b) ==
  IF a.fin /\ b.fin
  THEN IF b.v # 0 THEN F(TDiv(a.v * SCALE, b.v))
       ELSE IF a.v = 0 THEN NaN ELSE [fin |-> FALSE, v |-> Sgn(a.v)]
  ELSE IF IsNaN(a) \/ IsNaN(b) THEN NaN
  ELSE IF ~a.fin /\ ~b.fin THEN NaN
  ELSE IF b.fin THEN [fin |-> FALSE, v |-> IF b.v < 0 THEN -a.v ELSE a.v]
  ELSE F(0)

\* a < b; false as soon as one side is NaN.
Lt(a, b) ==
  IF IsNaN(a) \/ IsNaN(b) THEN FALSE
  ELSE IF a.fin /\ b.fin THEN a.v < b.v
  ELSE IF a.fin THEN b.v > 0
  ELSE IF b.fin THEN a.v < 0
  ELSE a.v < b.v

Gt(a, b) == Lt(b, a)
Ge(a, b) == ~IsNaN(a) /\ ~IsNaN(b) /\ ~Lt(a, b)

\* fabsf
Fabs(a) == [fin |-> a.fin, v |-> Abs(a.v)]

\* math::min(a, b): (a < b) ? a : b
Min(a, b) == IF Lt(a, b) THEN a ELSE b

\* Integer square root (floor), by bisection on [lo, hi].
RECURSIVE ISqrtIn(_, _, _)
ISqrtIn(n, lo, hi) ==
  IF lo >= hi THEN lo
  ELSE LET mid == (lo + hi + 1) \div 2
       IN IF mid * mid <= n THEN ISqrtIn(n, mid, hi) ELSE ISqrtIn(n, lo, mid - 1)

ISqrt(n) == ISqrtIn(n, 0, n)

\* ---- vectors (tuples of floats) ------------------------------------------
Vec3(x, y, z) == <<F(x), F(y), F(z)>>
Vec2(x, y) == <<F(x), F(y)>>
NaN3 == <<NaN, NaN, NaN>>

IsFiniteVec(u) == \A i \in DOMAIN u : IsFinite(u[i])
VAdd(u, w) == [i \in DOMAIN u |-> Add(u[i], w[i])]
VSub(u, w) == [i \in DOMAIN u |-> Sub(u[i], w[i])]
VMul(u, s) == [i \in DOMAIN u |-> Mul(u[i], s)]
VDiv(u, s) == [i \in DOMAIN u |-> Div(u[i], s)]
XY(u) == <<u[1], u[2]>>

\* Vector::norm(): sqrt of the sum of squares.
Norm(u) ==
  IF \E i \in DOMAIN u : IsNaN(u[i]) THEN NaN
  ELSE IF \E i \in DOMAIN u : ~IsFinite(u[i]) THEN PInf
  ELSE F(ISqrt(IF Len(u) = 2 THEN u[1].v * u[1].v + u[2].v * u[2].v
                ELSE u[1].v * u[1].v + u[2].v * u[2].v + u[3].v * u[3].v))

\* Vector::unit_or_zero(): the vector over its norm, or zero when the norm
\* is not above the (sub-resolution) epsilon.
UnitOrZero(u) ==
  LET n == Norm(u)
  IN IF Gt(n, F(0)) THEN VDiv(u, n) ELSE [i \in DOMAIN u |-> F(0)]

\* ---- trigonometry on whole degrees ---------------------------------------
\* sin on [0, 180] degrees (Bhaskara's rational approximation), in 1/SCALE.
SinHalfTurn(d) ==
  LET p == d * (180 - d)
  IN (2 * SCALE * 4 * p + (40500 - p)) \div (2 * (40500 - p))

SinDeg(d) ==
  LET m == d % 360
  IN IF m <= 180 THEN SinHalfTurn(m) ELSE -SinHalfTurn(m - 180)

CosDeg(d) == SinDeg(d + 90)

\* atan2f(y, x) in whole degrees, (-180, 180]; arguments are integers.
Atan2Deg(y, x) ==
  LET ax == Abs(x)
      ay == Abs(y)
      lo == IF ax < ay THEN ax ELSE ay
      hi == IF ax < ay THEN ay ELSE ax
      \* atan(lo/hi) on [0, 45] degrees
      r == IF hi = 0 THEN 0
           ELSE (45 * lo * hi + 16 * lo * (hi - lo)) \div (hi * hi)
      o == IF ay > ax THEN 90 - r ELSE r
      q == IF x < 0 THEN 180 - o ELSE o
  IN IF y < 0 THEN -q ELSE q

\* atan2f on floats, in degrees.
Atan2F(y, x) ==
  IF IsNaN(y) \/ IsNaN(x) THEN NaN
  ELSE IF y.fin /\ x.fin THEN F(Atan2Deg(y.v, x.v))
  ELSE IF x.fin THEN F(90 * y.v)
  ELSE IF y.fin THEN F(IF x.v > 0 THEN 0 ELSE IF y.v < 0 THEN -180 ELSE 180)
  ELSE F(y.v * (IF x.v > 0 THEN 45 ELSE 135))

\* ---- AlphaFilter<T> -------------------------------------------------------
\* setParameters(dt, tau): alpha = dt / (tau + dt);
\* update(sample): state = state * (1 - alpha) + sample * alpha.
\* Both weights are positive and finite, so a non-finite operand keeps its
\* kind and the sum follows the IEEE rules.
AlphaUpdateInt(state, sample, dt, tau) ==
  TDiv(state * tau + sample * dt, tau + dt)

AlphaUpdate(state, sample, dt, tau) ==
  IF state.fin /\ sample.fin
  THEN F(AlphaUpdateInt(state.v, sample.v, dt, tau))
  ELSE Add(state, sample)

AlphaUpdateVec(state, sample, dt, tau) ==
  [i \in DOMAIN state |-> AlphaUpdate(state[i], sample[i], dt, tau)]

\* ---- pure helpers of the task ---------------------------------------------
update_follow_me_angle_setting(param_nav_ft_fs) ==
  CASE param_nav_ft_fs = FOLLOW_PERSPECTIVE_BEHIND -> FOLLOW_PERSPECTIVE_BEHIND_ANGLE_DEG
    [] param_nav_ft_fs = FOLLOW_PERSPECTIVE_FRONT -> FOLLOW_PERSPECTIVE_FRONT_ANGLE_DEG
    [] param_nav_ft_fs = FOLLOW_PERSPECTIVE_FRONT_RIGHT -> FOLLOW_PERSPECTIVE_FRONT_RIGHT_ANGLE_DEG
    [] param_nav_ft_fs = FOLLOW_PERSPECTIVE_FRONT_LEFT -> FOLLOW_PERSPECTIVE_FRONT_LEFT_ANGLE_DEG
    [] param_nav_ft_fs = FOLLOW_PERSPECTIVE_MID_RIGHT -> FOLLOW_PERSPECTIVE_MID_RIGHT_ANGLE_DEG
    [] param_nav_ft_fs = FOLLOW_PERSPECTIVE_MID_LEFT -> FOLLOW_PERSPECTIVE_MID_LEFT_ANGLE_DEG
    [] param_nav_ft_fs = FOLLOW_PERSPECTIVE_BEHIND_RIGHT -> FOLLOW_PERSPECTIVE_BEHIND_RIGHT_ANGLE_DEG
    [] param_nav_ft_fs = FOLLOW_PERSPECTIVE_BEHIND_LEFT -> FOLLOW_PERSPECTIVE_BEHIND_LEFT_ANGLE_DEG
    [] param_nav_ft_fs = FOLLOW_PERSPECTIVE_MIDDLE_FOLLOW -> FOLLOW_PERSPECTIVE_BEHIND_ANGLE_DEG
    [] OTHER -> FOLLOW_PERSPECTIVE_BEHIND_ANGLE_DEG

\* x + v * dt + 0.5f * a * dt * dt
predict_future_x_ned_est(deltatime, x_ned_est, v_ned_est, a_ned_est) ==
  VAdd(VAdd(x_ned_est, VMul(v_ned_est, F(deltatime))),
       VMul(VMul(VMul(a_ned_est, F(SCALE \div 2)), F(deltatime)), F(deltatime)))

\* Mutant of ShortestRotation: the thresholds taken inclusively.
ShortestRotationInclusive(follow_angle_deg, new_follow_angle_deg) ==
  IF follow_angle_deg - new_follow_angle_deg >= 180 THEN new_follow_angle_deg + 360
  ELSE IF follow_angle_deg - new_follow_angle_deg <= -180 THEN new_follow_angle_deg - 360
  ELSE new_follow_angle_deg

\* "Use shortest rotation to get to the new angle" (update(), the unwrap)
ShortestRotation(follow_angle_deg, new_follow_angle_deg) ==
  IF follow_angle_deg - new_follow_angle_deg > 180 THEN new_follow_angle_deg + 360
  ELSE IF follow_angle_deg - new_follow_angle_deg < -180 THEN new_follow_angle_deg - 360
  ELSE new_follow_angle_deg

\* ---- state ------------------------------------------------------------------
VARIABLES
  position,                   \* _position: vehicle position (NED)
  yaw,                        \* _yaw: vehicle heading, degrees
  deltatime,                  \* _deltatime: duration of the cycle
  dist_to_bottom,             \* _dist_to_bottom: NaN when there is no reading
  follow_target_estimator,    \* _follow_target_estimator: the held estimate
  param_nav_ft_fs,            \* NAV_FT_FS: perspective
  param_nav_ft_alt_m,         \* NAV_FT_ALT_M: altitude mode
  param_nav_min_ft_ht,        \* NAV_MIN_FT_HT
  param_nav_ft_dst,           \* NAV_FT_DST
  follow_angle_deg,           \* _follow_angle_deg: raw follow angle
  follow_angle_filtered,      \* _follow_angle_filtered
  target_velocity_unit_vector,
  target_position_filtered,
  offset_vector_filtered,
  velocity_ff_scale,          \* _velocity_ff_scale
  position_setpoint,
  velocity_setpoint,
  yaw_setpoint,
  yawspeed_setpoint,
  cycle                       \* update() calls so far

vars == <<position, yaw, deltatime, dist_to_bottom, follow_target_estimator,
          param_nav_ft_fs, param_nav_ft_alt_m, param_nav_min_ft_ht, param_nav_ft_dst,
          follow_angle_deg, follow_angle_filtered, target_velocity_unit_vector,
          target_position_filtered, offset_vector_filtered, velocity_ff_scale,
          position_setpoint, velocity_setpoint, yaw_setpoint, yawspeed_setpoint,
          cycle>>

\* The task's fields as one record: the steps of update() map such a record
\* to the next one.
Task ==
  [position |-> position, yaw |-> yaw, deltatime |-> deltatime,
   dist_to_bottom |-> dist_to_bottom,
   follow_target_estimator |-> follow_target_estimator,
   param_nav_ft_fs |-> param_nav_ft_fs, param_nav_ft_alt_m |-> param_nav_ft_alt_m,
   param_nav_min_ft_ht |-> param_nav_min_ft_ht, param_nav_ft_dst |-> param_nav_ft_dst,
   follow_angle_deg |-> follow_angle_deg,
   follow_angle_filtered |-> follow_angle_filtered,
   target_velocity_unit_vector |-> target_velocity_unit_vector,
   target_position_filtered |-> target_position_filtered,
   offset_vector_filtered |-> offset_vector_filtered,
   velocity_ff_scale |-> velocity_ff_scale,
   position_setpoint |-> position_setpoint,
   velocity_setpoint |-> velocity_setpoint,
   yaw_setpoint |-> yaw_setpoint, yawspeed_setpoint |-> yawspeed_setpoint]

\* ---- update(): the steps ---------------------------------------------------
\* timestamp > 0 && valid
EstimateFresh(est) == est.timestamp > 0 /\ est.valid

\* The sample the position filter is fed.
TargetPredictedPosition(est) ==
  predict_future_x_ned_est(POSITION_FILTER_ALPHA, est.x_ned_est, est.v_ned_est,
                           est.a_ned_est)

\* Reset of the position filter while its state is not finite, then the
\* low-pass on the predicted target position.
UpdateTargetPosition(s) ==
  LET est == s.follow_target_estimator
      seeded == IF IsFiniteVec(s.target_position_filtered)
                THEN s.target_position_filtered ELSE est.x_ned_est
  IN [s EXCEPT !.target_position_filtered =
        AlphaUpdateVec(seeded, TargetPredictedPosition(est), s.deltatime,
                       POSITION_FILTER_ALPHA)]

\* The raw angle assigned by the unwrap and the angle filter's state after
\* its update, before the bookkeeping wrap.
UnwrappedFollowAngle(s) ==
  ShortestRotation(s.follow_angle_deg, update_follow_me_angle_setting(s.param_nav_ft_fs))

\* Mutant of WrapFollowAngle: the raw angle is wrapped, the filter state is not.
WrapFollowAngleRawOnly(filtered, raw) ==
  IF filtered > 360 THEN [filtered |-> filtered, raw |-> raw - 360]
  ELSE IF filtered < -360 THEN [filtered |-> filtered, raw |-> raw + 360]
  ELSE [filtered |-> filtered, raw |-> raw]

\* "Wrap around 360 degrees": the filter state and the raw angle together.
WrapFollowAngle(filtered, raw) ==
  IF filtered > 360 THEN [filtered |-> filtered - 360, raw |-> raw - 360]
  ELSE IF filtered < -360 THEN [filtered |-> filtered + 360, raw |-> raw + 360]
  ELSE [filtered |-> filtered, raw |-> raw]

UpdateFollowAngle(s) ==
  LET raw == UnwrappedFollowAngle(s)
      w == WrapFollowAngle(AlphaUpdateInt(s.follow_angle_filtered, raw, s.deltatime,
                                          FOLLOW_ANGLE_FILTER_ALPHA), raw)
  IN [s EXCEPT !.follow_angle_deg = w.raw, !.follow_angle_filtered = w.filtered]

\* The target's heading, renewed only above the minimum speed.
UpdateTargetHeading(s) ==
  LET v == s.follow_target_estimator.v_ned_est
  IN IF Gt(Norm(v), F(MINIMUM_SPEED_FOR_HEADING_CHANGE)) /\ Gt(Norm(v), F(0))
     THEN [s EXCEPT !.target_velocity_unit_vector = UnitOrZero(XY(v))]
     ELSE s

\* The sample the offset filter is fed: the heading rotated by the filtered angle.
OffsetVector(s) ==
  LET c == F(CosDeg(s.follow_angle_filtered))
      sn == F(SinDeg(s.follow_angle_filtered))
      u == s.target_velocity_unit_vector
  IN <<Sub(Mul(c, u[1]), Mul(sn, u[2])), Add(Mul(sn, u[1]), Mul(c, u[2]))>>

UpdateOffsetVector(s) ==
  IF s.param_nav_ft_fs = FOLLOW_PERSPECTIVE_NONE
  THEN [s EXCEPT !.offset_vector_filtered = Vec2(0, 0)]
  ELSE LET a == UpdateTargetHeading(UpdateFollowAngle(s))
       IN [a EXCEPT !.offset_vector_filtered =
             AlphaUpdateVec(a.offset_vector_filtered, OffsetVector(a), a.deltatime,
                            DIRECTION_FILTER_ALPHA)]

\* Mutant of DroneDesiredPosition: the constant-altitude clamp starts from the
\* vehicle's altitude, not from the altitude of the position setpoint.
DroneDesiredPositionFromVehicle(s) ==
  LET xy == VAdd(XY(s.target_position_filtered),
                 VMul(UnitOrZero(s.offset_vector_filtered), s.param_nav_ft_dst))
      z == IF s.param_nav_ft_alt_m = FOLLOW_ALTITUDE_MODE_TRACK_TARGET
           THEN Sub(s.target_position_filtered[3], s.param_nav_min_ft_ht)
           ELSE Min(s.position[3], Neg(s.param_nav_min_ft_ht))
  IN <<xy[1], xy[2], z>>

\* drone_desired_position, from the state after the filters have been updated.
DroneDesiredPosition(s) ==
  LET xy == VAdd(XY(s.target_position_filtered),
                 VMul(UnitOrZero(s.offset_vector_filtered), s.param_nav_ft_dst))
      z == IF s.param_nav_ft_alt_m = FOLLOW_ALTITUDE_MODE_TRACK_TARGET
           THEN Sub(s.target_position_filtered[3], s.param_nav_min_ft_ht)
           ELSE Min(s.position_setpoint[3], Neg(s.param_nav_min_ft_ht))
  IN <<xy[1], xy[2], z>>

\* fabsf(drone_desired_position(2) - _position(2)) < ALT_ACCEPTANCE_THRESHOLD
OnTargetAltitude(s, desired) ==
  Lt(Fabs(Sub(desired[3], s.position[3])), F(ALT_ACCEPTANCE_THRESHOLD))

\* desired_velocity_ff_scale at the end of the setpoint branches.
DesiredVelocityFFScale(s, desired) ==
  IF IsFiniteVec(desired) /\ OnTargetAltitude(s, desired)
     /\ Ge(Norm(s.follow_target_estimator.v_ned_est), F(MINIMUM_SPEED_FOR_HEADING_CHANGE))
  THEN SCALE ELSE 0

\* Mutant of VelocityFeedForward: the feed-forward filter is ramped first and
\* its new value scales the term.
VelocityFeedForwardAfterRamp(s, desired) ==
  VMul(VDiv(VSub(desired, s.position_setpoint), F(s.deltatime)),
       F(AlphaUpdateInt(s.velocity_ff_scale, DesiredVelocityFFScale(s, desired),
                        s.deltatime, VELOCITY_FF_FILTER_ALPHA)))

\* The velocity feed-forward term of the on-altitude branch.
VelocityFeedForward(s, desired) ==
  VMul(VDiv(VSub(desired, s.position_setpoint), F(s.deltatime)), F(s.velocity_ff_scale))

\* "Set position and velocity setpoints"
SetSetpoints(s, desired) ==
  IF IsFiniteVec(desired)
  THEN IF OnTargetAltitude(s, desired)
       THEN [s EXCEPT !.velocity_setpoint = VelocityFeedForward(s, desired),
                      !.position_setpoint = desired]
       ELSE [s EXCEPT !.position_setpoint = <<s.position[1], s.position[2], desired[3]>>]
  ELSE [s EXCEPT !.position_setpoint = s.position,
                 !.velocity_setpoint = Vec3(0, 0, 0)]

\* _velocity_ff_scale.setParameters(...); _velocity_ff_scale.update(...)
UpdateVelocityFFScale(s, desired_velocity_ff_scale) ==
  [s EXCEPT !.velocity_ff_scale =
     AlphaUpdateInt(s.velocity_ff_scale, desired_velocity_ff_scale, s.deltatime,
                    VELOCITY_FF_FILTER_ALPHA)]

\* "Emergency ascent when too close to the ground"
TooCloseToGround(s) ==
  IsFinite(s.dist_to_bottom) /\ Lt(s.dist_to_bottom, F(MINIMUM_SAFETY_ALTITUDE))

EmergencyAscent(s) ==
  IF TooCloseToGround(s)
  THEN [s EXCEPT !.position_setpoint = <<NaN, NaN, s.position[3]>>,
                 !.velocity_setpoint = <<F(0), F(0), F(-EMERGENCY_ASCENT_SPEED)>>]
  ELSE s

\* "Yaw setpoint: Face the target"
UpdateYawSetpoint(s) ==
  LET target_to_drone == VSub(XY(s.position), XY(s.target_position_filtered))
  IN IF Ge(Norm(target_to_drone), F(MINIMUM_DISTANCE_TO_TARGET_FOR_YAW_CONTROL))
     THEN [s EXCEPT !.yaw_setpoint =
             Atan2F(Neg(target_to_drone[2]), Neg(target_to_drone[1]))]
     ELSE s

\* The branch of update() for a fresh estimate.
Track(s) ==
  LET a == UpdateOffsetVector(UpdateTargetPosition(s))
      desired == DroneDesiredPosition(a)
      b == UpdateVelocityFFScale(SetSetpoints(a, desired),
                                 DesiredVelocityFFScale(a, desired))
  IN UpdateYawSetpoint(EmergencyAscent(b))

\* Mutant of Hold: "stay in current position" as the tracking branch does it,
\* with the vehicle's position instead of NaN.
HoldAtPosition(s) ==
  [s EXCEPT !.position_setpoint = <<s.position[1], s.position[2], s.position_setpoint[3]>>,
            !.velocity_setpoint = <<F(0), F(0), s.velocity_setpoint[3]>>]

\* Mutant of Hold: the position filter is put back to "unknown" when the
\* estimate is lost.
HoldResettingFilter(s) ==
  [s EXCEPT !.position_setpoint = <<NaN, NaN, s.position_setpoint[3]>>,
            !.velocity_setpoint = <<F(0), F(0), s.velocity_setpoint[3]>>,
            !.target_position_filtered = NaN3]

\* The branch of update() for an estimate that is not fresh.
Hold(s) ==
  [s EXCEPT !.position_setpoint = <<NaN, NaN, s.position_setpoint[3]>>,
            !.velocity_setpoint = <<F(0), F(0), s.velocity_setpoint[3]>>]

\* update(), on the task's fields with this cycle's inputs already in them.
\* The call of the base class's update() at its head is taken to leave these
\* fields as they are; the status message and want_takeoff are not modelled.
update(s) ==
  IF EstimateFresh(s.follow_target_estimator) THEN Track(s) ELSE Hold(s)

\* activate(), on the task's fields.  The call of the base class's activate()
\* at its head is taken to leave these fields as they are.
activate(s) ==
  LET heading == <<F(CosDeg(s.yaw.v)), F(-SinDeg(s.yaw.v))>>
  IN [s EXCEPT !.position_setpoint = s.position,
               !.target_position_filtered = NaN3,
               !.follow_angle_filtered = 0,
               !.velocity_ff_scale = 0,
               !.offset_vector_filtered =
                  IF IsFinite(s.yaw) THEN heading ELSE Vec2(SCALE, 0),
               !.yawspeed_setpoint = F(0)]

\* ---- bounds and input samples -----------------------------------------------
\* update() calls explored by each specification.
MaxCycles == 2
MaxTrackCycles == 3
MaxAngleCycles == 4
MaxAltitudeCycles == 3

\* Held estimates: never valid, valid without a timestamp, fresh and finite
\* (target 10 m north at 5 m altitude, moving north at 1 m/s or standing),
\* fresh with a NaN position, fresh with an infinite velocity.
Estimate(ts, ok, x, v, a) ==
  [timestamp |-> ts, valid |-> ok, x_ned_est |-> x, v_ned_est |-> v, a_ned_est |-> a]

EstNone == Estimate(0, FALSE, Vec3(0, 0, 0), Vec3(0, 0, 0), Vec3(0, 0, 0))
EstInvalid == Estimate(1, FALSE, Vec3(100, 0, -50), Vec3(10, 0, 0), Vec3(0, 0, 0))
EstNoTimestamp == Estimate(0, TRUE, Vec3(100, 0, -50), Vec3(10, 0, 0), Vec3(0, 0, 0))
EstMoving == Estimate(1, TRUE, Vec3(100, 0, -50), Vec3(10, 0, 0), Vec3(0, 0, 0))
EstStanding == Estimate(1, TRUE, Vec3(100, 20, -50), Vec3(0, 0, 0), Vec3(0, 0, 0))
EstNaNPosition == Estimate(1, TRUE, <<NaN, F(0), F(-50)>>, Vec3(10, 0, 0), Vec3(0, 0, 0))
EstInfVelocity == Estimate(1, TRUE, Vec3(100, 0, -50), <<PInf, F(0), F(0)>>, Vec3(0, 0, 0))

FiniteEstimates == {EstInvalid, EstMoving, EstStanding}
Estimates ==
  {EstInvalid, EstNoTimestamp, EstMoving, EstStanding, EstNaNPosition, EstInfVelocity}

\* Vehicle positions: close to the commanded altitude (12 m) and 2 m above ground.
PositionHigh == Vec3(0, 0, -120)
PositionLow == Vec3(0, 0, -20)
Positions == {PositionHigh, PositionLow}

\* Vehicle heading at activation: east, or not known.
Headings == {F(90), NaN}

\* Distance to ground: no reading, 0.5 m, 2 m.
GroundDistances == {NaN, F(5), F(20)}

\* Cycle durations: 0.5 s, 3 s.
CycleTime == 5
LongCycleTime == 30

Perspectives == FOLLOW_PERSPECTIVE_NONE .. FOLLOW_PERSPECTIVE_INVALID
AltitudeModes == {FOLLOW_ALTITUDE_MODE_CONSTANT, FOLLOW_ALTITUDE_MODE_TRACK_TARGET}

\* A value of NAV_FT_ALT_M that is no altitude mode: the switch's default.
AltitudeModeUnrecognized == FOLLOW_ALTITUDE_MODE_TRACK_TARGET + 1
ConstantAltitudeModes == {FOLLOW_ALTITUDE_MODE_CONSTANT, AltitudeModeUnrecognized}

\* ---- actions -------------------------------------------------------------------
Commit(r) ==
  /\ position' = r.position
  /\ yaw' = r.yaw
  /\ deltatime' = r.deltatime
  /\ dist_to_bottom' = r.dist_to_bottom
  /\ follow_target_estimator' = r.follow_target_estimator
  /\ param_nav_ft_fs' = r.param_nav_ft_fs
  /\ param_nav_ft_alt_m' = r.param_nav_ft_alt_m
  /\ param_nav_min_ft_ht' = r.param_nav_min_ft_ht
  /\ param_nav_ft_dst' = r.param_nav_ft_dst
  /\ follow_angle_deg' = r.follow_angle_deg
  /\ follow_angle_filtered' = r.follow_angle_filtered
  /\ target_velocity_unit_vector' = r.target_velocity_unit_vector
  /\ target_position_filtered' = r.target_position_filtered
  /\ offset_vector_filtered' = r.offset_vector_filtered
  /\ velocity_ff_scale' = r.velocity_ff_scale
  /\ position_setpoint' = r.position_setpoint
  /\ velocity_setpoint' = r.velocity_setpoint
  /\ yaw_setpoint' = r.yaw_setpoint
  /\ yawspeed_setpoint' = r.yawspeed_setpoint

\* The task as constructed: vectors, filters and the raw angle are zero.  The
\* held estimate has no initialiser; it is taken as never received, and what
\* else it may hold is among the estimates the first cycle draws.
Constructed(positions, yaws, modes, fss) ==
  [position : positions, yaw : yaws, deltatime : {CycleTime},
   dist_to_bottom : {NaN}, follow_target_estimator : {EstNone},
   param_nav_ft_fs : fss, param_nav_ft_alt_m : modes,
   param_nav_min_ft_ht : {F(80)}, param_nav_ft_dst : {F(80)},
   follow_angle_deg : {0}, follow_angle_filtered : {0},
   target_velocity_unit_vector : {Vec2(0, 0)},
   target_position_filtered : {Vec3(0, 0, 0)},
   offset_vector_filtered : {Vec2(0, 0)},
   velocity_ff_scale : {0},
   position_setpoint : {Vec3(0, 0, 0)}, velocity_setpoint : {Vec3(0, 0, 0)},
   yaw_setpoint : {F(0)}, yawspeed_setpoint : {F(0)}]

\* One control cycle: the cycle's inputs reach the task's fields (the vehicle
\* state, a newly copied estimate, the parameters), then update() runs.
UpdateCycle(max, est, pos, dt, dist, fs) ==
  /\ cycle < max
  /\ Commit(update([Task EXCEPT !.follow_target_estimator = est,
                                !.position = pos,
                                !.deltatime = dt,
                                !.dist_to_bottom = dist,
                                !.param_nav_ft_fs = fs]))
  /\ cycle' = cycle + 1

\* activate() while the task runs (the mode is entered again).
Activate ==
  /\ Commit(activate(Task))
  /\ UNCHANGED cycle

\* The first activation of a constructed task.
InitFrom(tasks) ==
  /\ \E s \in tasks :
       LET r == activate(s)
       IN /\ position = r.position
          /\ yaw = r.yaw
          /\ deltatime = r.deltatime
          /\ dist_to_bottom = r.dist_to_bottom
          /\ follow_target_estimator = r.follow_target_estimator
          /\ param_nav_ft_fs = r.param_nav_ft_fs
          /\ param_nav_ft_alt_m = r.param_nav_ft_alt_m
          /\ param_nav_min_ft_ht = r.param_nav_min_ft_ht
          /\ param_nav_ft_dst = r.param_nav_ft_dst
          /\ follow_angle_deg = r.follow_angle_deg
          /\ follow_angle_filtered = r.follow_angle_filtered
          /\ target_velocity_unit_vector = r.target_velocity_unit_vector
          /\ target_position_filtered = r.target_position_filtered
          /\ offset_vector_filtered = r.offset_vector_filtered
          /\ velocity_ff_scale = r.velocity_ff_scale
          /\ position_setpoint = r.position_setpoint
          /\ velocity_setpoint = r.velocity_setpoint
          /\ yaw_setpoint = r.yaw_setpoint
          /\ yawspeed_setpoint = r.yawspeed_setpoint
  /\ cycle = 0

\* ---- specification: any estimate, any ground distance ------------------------
Init ==
  InitFrom(Constructed(Positions, Headings, AltitudeModes,
                       {FOLLOW_PERSPECTIVE_NONE, FOLLOW_PERSPECTIVE_BEHIND}))

Update ==
  \E est \in Estimates, pos \in Positions, dist \in GroundDistances :
    UpdateCycle(MaxCycles, est, pos, CycleTime, dist, param_nav_ft_fs)

Next == Update \/ Activate

Spec == Init /\ [][Next]_vars

\* ---- specification: finite estimates only ------------------------------------
InitTrack ==
  InitFrom(Constructed(Positions, {F(90)}, AltitudeModes, {FOLLOW_PERSPECTIVE_BEHIND}))

UpdateTrack ==
  \E est \in FiniteEstimates, pos \in Positions, dist \in {NaN, F(5)} :
    UpdateCycle(MaxTrackCycles, est, pos, CycleTime, dist, param_nav_ft_fs)

NextTrack == UpdateTrack \/ Activate

SpecTrack == InitTrack /\ [][NextTrack]_vars

\* ---- specification: constant altitude, finite estimates ------------------------
InitAltitude ==
  InitFrom(Constructed(Positions, {F(90)}, ConstantAltitudeModes,
                       {FOLLOW_PERSPECTIVE_BEHIND}))

UpdateAltitude ==
  \E est \in FiniteEstimates, pos \in Positions, dist \in {NaN, F(5)} :
    UpdateCycle(MaxAltitudeCycles, est, pos, CycleTime, dist, param_nav_ft_fs)

NextAltitude == UpdateAltitude \/ Activate

SpecAltitude == InitAltitude /\ [][NextAltitude]_vars

\* ---- specification: the perspective changes between cycles -------------------
InitAngle ==
  InitFrom(Constructed({PositionHigh}, Headings, {FOLLOW_ALTITUDE_MODE_TRACK_TARGET},
                       {FOLLOW_PERSPECTIVE_BEHIND}))

UpdatePerspective ==
  \E fs \in Perspectives :
    UpdateCycle(MaxAngleCycles, EstStanding, position, LongCycleTime, NaN, fs)

UpdateStale ==
  UpdateCycle(MaxAngleCycles, EstInvalid, position, LongCycleTime, NaN, param_nav_ft_fs)

NextAngle == UpdatePerspective \/ UpdateStale \/ Activate

SpecAngle == InitAngle /\ [][NextAngle]_vars

\* ---- vocabulary of the properties ---------------------------------------------
\* A step that is one control cycle.
UpdateStep == cycle' = cycle + 1

\* The task's fields on entry to update() in such a step: the state before
\* the step with the cycle's inputs in place.
CycleInput ==
  [Task EXCEPT !.follow_target_estimator = follow_target_estimator',
               !.position = position',
               !.deltatime = deltatime',
               !.dist_to_bottom = dist_to_bottom',
               !.param_nav_ft_fs = param_nav_ft_fs']

HoldingCycle == UpdateStep /\ ~EstimateFresh(follow_target_estimator')
TrackingCycle == UpdateStep /\ EstimateFresh(follow_target_estimator')

\* drone_desired_position of a tracking cycle.
CycleDesiredPosition ==
  DroneDesiredPosition(UpdateOffsetVector(UpdateTargetPosition(CycleInput)))

HorizontalHold(sp, vel) ==
  /\ IsNaN(sp[1]) /\ IsNaN(sp[2])
  /\ vel[1] = F(0) /\ vel[2] = F(0)

\* ---- C1 ------------------------------------------------------------------------
\* C1: after every update() cycle whose held estimate is not fresh, both
\* horizontal components of position_setpoint are NaN and both horizontal
\* components of velocity_setpoint are exactly zero.
C1_StaleEstimateHolds ==
  [][HoldingCycle => HorizontalHold(position_setpoint', velocity_setpoint')]_vars

\* A hold cycle that followed an emergency ascent: the vertical velocity
\* setpoint of the ascent is still there, the horizontal ones are the hold's.
C1_Witness ==
  /\ cycle > 0
  /\ ~EstimateFresh(follow_target_estimator)
  /\ HorizontalHold(position_setpoint, velocity_setpoint)
  /\ velocity_setpoint[3] = F(-EMERGENCY_ASCENT_SPEED)

\* ---- C2 ------------------------------------------------------------------------
\* C2: after any update() cycle in which the distance to ground is a finite
\* reading below the safety threshold, fresh or stale estimate alike, the
\* vertical velocity setpoint is -EMERGENCY_ASCENT_SPEED and the horizontal
\* position setpoints are NaN.
C2_GroundClearanceOverride ==
  [][(UpdateStep /\ TooCloseToGround(CycleInput))
       => /\ velocity_setpoint'[3] = F(-EMERGENCY_ASCENT_SPEED)
          /\ IsNaN(position_setpoint'[1]) /\ IsNaN(position_setpoint'[2])]_vars

\* ---- C3 ------------------------------------------------------------------------
\* C3: a Holding cycle changes nothing but the horizontal position and
\* velocity setpoints: the filters, the raw angle, the target heading, the yaw
\* setpoint and the vertical setpoints stay; so a Holding cycle that follows a
\* hold output leaves the outputs as they are.
C3_HoldingFrame ==
  [][HoldingCycle =>
       /\ target_position_filtered' = target_position_filtered
       /\ offset_vector_filtered' = offset_vector_filtered
       /\ follow_angle_filtered' = follow_angle_filtered
       /\ velocity_ff_scale' = velocity_ff_scale
       /\ follow_angle_deg' = follow_angle_deg
       /\ target_velocity_unit_vector' = target_velocity_unit_vector
       /\ yaw_setpoint' = yaw_setpoint
       /\ position_setpoint'[3] = position_setpoint[3]
       /\ velocity_setpoint'[3] = velocity_setpoint[3]
       /\ (HorizontalHold(position_setpoint, velocity_setpoint)
             => /\ position_setpoint' = position_setpoint
                /\ velocity_setpoint' = velocity_setpoint)]_vars

\* The estimate went from valid to invalid: the position filter still holds
\* the finite state the tracking cycles gave it, the outputs are the hold's.
C3_Witness ==
  /\ cycle > 0
  /\ ~EstimateFresh(follow_target_estimator)
  /\ IsFiniteVec(target_position_filtered)
  /\ HorizontalHold(position_setpoint, velocity_setpoint)

\* ---- C4 ------------------------------------------------------------------------
\* C4: in every Tracking cycle with a perspective other than None, the raw
\* angle the unwrap assigns is congruent to the perspective's angle modulo 360
\* and at most 180 degrees away from the raw angle before it.
C4_UnwrapShortestPath ==
  [][(TrackingCycle /\ param_nav_ft_fs' # FOLLOW_PERSPECTIVE_NONE)
       => LET assigned == UnwrappedFollowAngle(CycleInput)
          IN /\ (assigned - update_follow_me_angle_setting(param_nav_ft_fs')) % 360 = 0
             /\ Abs(follow_angle_deg - assigned) <= 180]_vars

\* ---- C5 ------------------------------------------------------------------------
\* C5 as stated: with the raw angle at 180 and the perspective switched to
\* Front, the next Tracking cycle assigns -180.
C5_BehindToFrontAssignsMinus180 ==
  [][(TrackingCycle /\ follow_angle_deg = FOLLOW_PERSPECTIVE_BEHIND_ANGLE_DEG
        /\ param_nav_ft_fs' = FOLLOW_PERSPECTIVE_FRONT)
       => follow_angle_deg' = -180]_vars

\* C5 as amended: with the raw angle at 180 and the perspective switched to
\* Front, the next Tracking cycle assigns 0 (a difference of exactly 180 is
\* not above the threshold of the unwrap), and the raw angle is 0 after it.
C5_BehindToFrontAssignsZero ==
  [][(TrackingCycle /\ follow_angle_deg = FOLLOW_PERSPECTIVE_BEHIND_ANGLE_DEG
        /\ param_nav_ft_fs' = FOLLOW_PERSPECTIVE_FRONT)
       => /\ UnwrappedFollowAngle(CycleInput) = FOLLOW_PERSPECTIVE_FRONT_ANGLE_DEG
          /\ follow_angle_deg' = FOLLOW_PERSPECTIVE_FRONT_ANGLE_DEG]_vars

\* One cycle behind the target (the filter half way to 180), then the switch
\* to Front: the raw angle is 0 and the filter is on its way back.
C5_Witness ==
  /\ cycle = 2
  /\ EstimateFresh(follow_target_estimator)
  /\ param_nav_ft_fs = FOLLOW_PERSPECTIVE_FRONT
  /\ follow_angle_deg = FOLLOW_PERSPECTIVE_FRONT_ANGLE_DEG
  /\ follow_angle_filtered = 45

\* ---- C6 ------------------------------------------------------------------------
\* C6: the state of follow_angle_filtered is within [-360, 360] degrees after
\* every cycle.
C6_FilteredAngleInRange ==
  follow_angle_filtered >= -360 /\ follow_angle_filtered <= 360

\* The raw angle is beyond a full turn and the filter has followed it to
\* within a quarter turn of the limit.
C6_Witness ==
  /\ cycle > 0
  /\ follow_angle_deg > 360
  /\ follow_angle_filtered > 270
  /\ follow_angle_filtered <= 360

\* ---- C7 ------------------------------------------------------------------------
\* C7: in a cycle with a fresh estimate, a filter whose state is finite is
\* never passed a non-finite sample: the position filter gets a finite
\* predicted position, the offset filter a finite offset vector.  (The angle
\* and feed-forward filters are fed program constants.)
C7_FiltersFedFinite ==
  [][TrackingCycle =>
       /\ IsFiniteVec(target_position_filtered)
            => IsFiniteVec(TargetPredictedPosition(follow_target_estimator'))
       /\ (param_nav_ft_fs' # FOLLOW_PERSPECTIVE_NONE
             /\ IsFiniteVec(offset_vector_filtered))
            => IsFiniteVec(OffsetVector(UpdateTargetHeading(UpdateFollowAngle(
                                          UpdateTargetPosition(CycleInput)))))]_vars

\* ---- C8 ------------------------------------------------------------------------
\* C8: with a finite vehicle position, finite estimates and dt > 0 the
\* velocity setpoint is finite after every cycle (checked where every input
\* is finite).
C8_VelocitySetpointFinite ==
  IsFiniteVec(velocity_setpoint)

\* ---- C9 ------------------------------------------------------------------------
\* C9: a Tracking cycle with a finite desired position, no ground-clearance
\* override and an altitude error at or above the acceptance band commands no
\* horizontal motion: position_setpoint is the vehicle's position with the
\* desired altitude, and the horizontal velocity setpoint is zero.
C9_AltitudeFirst ==
  [][LET d == CycleDesiredPosition
     IN  (/\ TrackingCycle
          /\ IsFiniteVec(d)
          /\ ~TooCloseToGround(CycleInput)
          /\ ~OnTargetAltitude(CycleInput, d))
           => /\ position_setpoint' = <<position'[1], position'[2], d[3]>>
              /\ velocity_setpoint'[1] = F(0)
              /\ velocity_setpoint'[2] = F(0)]_vars

\* ---- C10 -----------------------------------------------------------------------
\* The target of the feed-forward ramp in a cycle on target altitude.
C10_RampTarget ==
  IF Ge(Norm(follow_target_estimator'.v_ned_est), F(MINIMUM_SPEED_FOR_HEADING_CHANGE))
  THEN SCALE ELSE 0

\* A tracking cycle with desired position d that is on target altitude and
\* has no emergency ascent.
C10_OnAltitudeCycle(d) ==
  /\ TrackingCycle
  /\ IsFiniteVec(d)
  /\ OnTargetAltitude(CycleInput, d)
  /\ ~TooCloseToGround(CycleInput)

\* C10 as stated: the feed-forward scale is ramped first, and the velocity
\* setpoint is (desired - previous position_setpoint) / dt times the filter's
\* value after that ramp; then the desired position is committed.
C10_RampBeforeFeedForward ==
  [][LET d == CycleDesiredPosition
     IN  C10_OnAltitudeCycle(d) =>
           /\ velocity_ff_scale' = AlphaUpdateInt(velocity_ff_scale, C10_RampTarget,
                                                  deltatime', VELOCITY_FF_FILTER_ALPHA)
           /\ velocity_setpoint' =
                VMul(VDiv(VSub(d, position_setpoint), F(deltatime')),
                     F(velocity_ff_scale'))
           /\ position_setpoint' = d]_vars

\* C10 as amended: the velocity setpoint is (desired - previous
\* position_setpoint) / dt times the value the feed-forward filter had when
\* the cycle began; the desired position is committed; the ramp (toward 1 if
\* the target speed is at least 0.1 m/s, else toward 0) comes after both.
C10_FeedForwardBeforeRamp ==
  [][LET d == CycleDesiredPosition
     IN  C10_OnAltitudeCycle(d) =>
           /\ velocity_setpoint' =
                VMul(VDiv(VSub(d, position_setpoint), F(deltatime')),
                     F(velocity_ff_scale))
           /\ position_setpoint' = d
           /\ velocity_ff_scale' = AlphaUpdateInt(velocity_ff_scale, C10_RampTarget,
                                                  deltatime', VELOCITY_FF_FILTER_ALPHA)]_vars

\* A cycle on target altitude whose feed-forward is not zero: the ramp had
\* started in an earlier cycle and the desired position has moved since.
C10_Witness ==
  /\ cycle > 1
  /\ EstimateFresh(follow_target_estimator)
  /\ ~TooCloseToGround(Task)
  /\ IsFiniteVec(position_setpoint)
  /\ OnTargetAltitude(Task, position_setpoint)
  /\ IsFiniteVec(velocity_setpoint)
  /\ velocity_setpoint[1] # F(0)
  /\ velocity_ff_scale > 0

\* ---- C11 -----------------------------------------------------------------------
\* C11: in altitude mode Constant, or with a value that is no altitude mode,
\* a Tracking cycle with a finite desired position and no ground-clearance
\* override leaves the vertical position setpoint at min(previous vertical
\* position setpoint, -minimum height), in the branch within the acceptance
\* band and in the altitude-first branch alike; so it is at most -minimum
\* height after the cycle, and no cycle without the override, Tracking or
\* Holding, makes it greater than it was.
C11_ConstantAltitudeClamp ==
  [][(/\ UpdateStep
      /\ param_nav_ft_alt_m # FOLLOW_ALTITUDE_MODE_TRACK_TARGET
      /\ ~TooCloseToGround(CycleInput))
       => /\ (TrackingCycle /\ IsFiniteVec(CycleDesiredPosition))
               => /\ position_setpoint'[3] =
                       Min(position_setpoint[3], Neg(param_nav_min_ft_ht))
                  /\ ~Gt(position_setpoint'[3], Neg(param_nav_min_ft_ht))
                  /\ ~Gt(position_setpoint'[3], position_setpoint[3])
          /\ HoldingCycle => position_setpoint'[3] = position_setpoint[3]]_vars

\* A value that is no altitude mode, the vehicle 2 m up and more than the
\* acceptance band below the minimum height: the altitude-first branch has
\* set the vertical position setpoint to -minimum height, above the vehicle.
C11_Witness ==
  /\ cycle > 0
  /\ EstimateFresh(follow_target_estimator)
  /\ ~TooCloseToGround(Task)
  /\ param_nav_ft_alt_m = AltitudeModeUnrecognized
  /\ position = PositionLow
  /\ position_setpoint = <<position[1], position[2], Neg(param_nav_min_ft_ht)>>

====
